---- MODULE Spec2Model ----
(***************************************************************************)
(* Knight's tour search engine of Knight.py: the driver (__main__), the    *)
(* multi-attempt Warnsdorff orchestrator, the single Warnsdorff attempt,   *)
(* the scoring strategies, the path fingerprint and the iterative          *)
(* backtracking solver.                                                    *)
(*                                                                         *)
(* Abstractions:                                                           *)
(*  - random.random() * 0.1 is one of TieLevels equidistant values of      *)
(*    [0, 0.1); every score is multiplied by Scale = 10 * TieLevels so     *)
(*    that it stays an integer.  Each call draws any of the values.        *)
(*  - random.shuffle draws one of NumPrefs permutations of 0..7.           *)
(*  - hash() of the sampled string is either collision free (the string    *)
(*    itself) or a polynomial hash of width HashMod; which of the two is   *)
(*    fixed per process, as Python's string hashing is.                    *)
(*  - timestamps, the per-move diagnostic trace, printing and the files    *)
(*    written by _save_* are left out; debug_log keeps the orchestrator's  *)
(*    outcome messages only.                                               *)
(***************************************************************************)
EXTENDS Integers, Sequences, FiniteSets, TLC

\* ---------------------------------------------------------------- bounds
MaxAttempts == 3       \* largest --attempts given to the driver
TieLevels   == 2       \* distinct values random.random() * 0.1 can take
NumPrefs    == 2       \* distinct outcomes of random.shuffle
HashMod     == 2       \* width of the colliding hash
LargeBoard  == 31      \* a board beyond the backtracking limit (budget 0 only)

\* ------------------------------------------------------- program constants
UNVISITED      == -1    \* Knight.py:18
SeedFactor     == 1000  \* Knight.py:211
MaxSample      == 100   \* Knight.py:347
BacktrackLimit == 30    \* Knight.py:701

\* Knight.py:19-20
moves_x == <<2, 1, -1, -2, -2, -1, 1, 2>>
moves_y == <<1, 2, 2, 1, -1, -2, -2, -1>>

\* --------------------------------------------------------------- inputs
BoardSizes == {1, 2, 3, 4, 5, LargeBoard}

Cells(n) == (0 .. n - 1) \X (0 .. n - 1)

\* start cells around and on the board; the ring x, y \in {-1, n} is the
\* out-of-bounds input of the driver
AllStarts(n) == (-1 .. n) \X (-1 .. n)

\* starts explored on the 5 x 5 board (the other boards take every start)
Starts5 == {<<0, 0>>, <<3, 1>>, <<4, 4>>, <<-1, 0>>, <<2, 5>>}

\* starts given to the heuristic on the 4 x 4 board with a budget > 0
Starts4 == {<<0, 1>>, <<1, 2>>, <<4, 4>>}

\* starts explored on the large board
StartsLarge == {<<0, 0>>, <<0, -1>>}

InputStarts(n, a) ==
    IF n > 5 THEN StartsLarge
    ELSE IF n = 5 THEN Starts5
    ELSE IF n = 4 /\ a > 0 THEN Starts4
    ELSE AllStarts(n)

VARIABLES
    size,             \* args.size / KnightsTour.size
    start,            \* <<start_x, start_y>>
    attempts,         \* args.attempts
    hash_exact,       \* TRUE: hash() has no collision on the strings hashed
    pc,               \* position of the program
    board,            \* KnightsTour.board
    path,             \* KnightsTour.path
    variation_stats,  \* KnightsTour.variation_stats
    debug_log,        \* KnightsTour.debug_log (outcome messages)
    max_attempts,     \* orchestrator parameter
    attempt,          \* orchestrator loop variable
    variation,        \* attempt % 3
    move_preferences, \* shuffled move indices of the attempt
    attempted_paths,  \* set of fingerprints
    attempt_success,  \* result of _solve_with_warnsdorff_variation
    stack,            \* explicit stack of solve
    success           \* result seen by the driver

vars == <<size, start, attempts, hash_exact, pc, board, path, variation_stats,
          debug_log, max_attempts, attempt, variation, move_preferences,
          attempted_paths, attempt_success, stack, success>>

\* ------------------------------------------------------------ board state
EmptyBoard(n) == [c \in Cells(n) |-> UNVISITED]

NoPrefs == <<>>

\* the visit order written one too high
Place_OneAhead(b, c, move_count) == [b EXCEPT ![c] = move_count + 1]

\* Knight.py:329 and Knight.py:415, self.board[next_x][next_y] = move_count
Place(b, c, move_count) == [b EXCEPT ![c] = move_count]

is_valid_move(x, y) ==
    /\ 0 <= x /\ x < size
    /\ 0 <= y /\ y < size
    /\ board[<<x, y>>] = UNVISITED

_count_valid_moves(x, y) ==
    Cardinality({i \in 1 .. 8 : is_valid_move(x + moves_x[i], y + moves_y[i])})

Abs(a) == IF a < 0 THEN -a ELSE a

Min2(a, b) == IF a <= b THEN a ELSE b

\* ------------------------------------------------------ scoring strategies
Scale == 10 * TieLevels

Ties == 0 .. TieLevels - 1

\* the tie-break weighted like the degree and the degree like the tie-break
_score_random_Swapped(next_x, next_y, degree, random_factor) ==
    <<degree + random_factor * Scale>>

_score_random(next_x, next_y, degree, random_factor) ==
    <<degree * Scale + random_factor>>

\* the distance to the centre taken with the wrong sign
_score_center_Away(next_x, next_y, degree, random_factor) ==
    LET center_x == size \div 2
        center_y == size \div 2
        dist_to_center == Abs(next_x - center_x) + Abs(next_y - center_y)
    IN  <<degree, (-dist_to_center) * Scale + random_factor>>

_score_center(next_x, next_y, degree, random_factor) ==
    LET center_x == size \div 2
        center_y == size \div 2
        dist_to_center == Abs(next_x - center_x) + Abs(next_y - center_y)
    IN  <<degree, dist_to_center * Scale + random_factor>>

_score_corners(next_x, next_y, degree, random_factor) ==
    LET d(cx, cy) == Abs(next_x - cx) + Abs(next_y - cy)
        min_corner_dist ==
            Min2(Min2(d(0, 0), d(0, size - 1)),
                 Min2(d(size - 1, 0), d(size - 1, size - 1)))
    IN  <<degree, (-min_corner_dist) * Scale + random_factor>>

\* the dispatch with the two biased strategies exchanged
scoring_func_Exchanged(v, next_x, next_y, degree, random_factor) ==
    IF v = 1 THEN _score_corners(next_x, next_y, degree, random_factor)
    ELSE IF v = 2 THEN _score_center(next_x, next_y, degree, random_factor)
    ELSE _score_random(next_x, next_y, degree, random_factor)

scoring_func(v, next_x, next_y, degree, random_factor) ==
    IF v = 1 THEN _score_center(next_x, next_y, degree, random_factor)
    ELSE IF v = 2 THEN _score_corners(next_x, next_y, degree, random_factor)
    ELSE _score_random(next_x, next_y, degree, random_factor)

\* Python's comparison of two score tuples of the same length
ScoreLess(a, b) ==
    \/ a[1] < b[1]
    \/ a[1] = b[1] /\ Len(a) > 1 /\ a[2] < b[2]

\* list.sort(key = lambda m: m[0]) is stable: an element moves behind the
\* elements of smaller score and behind the earlier elements of equal score
SortRank(s, j) ==
    Cardinality({i \in 1 .. Len(s) :
        \/ ScoreLess(s[i].score, s[j].score)
        \/ i < j /\ ~ ScoreLess(s[j].score, s[i].score)}) + 1

SortMoves(s) ==
    [r \in 1 .. Len(s) |-> s[CHOOSE j \in 1 .. Len(s) : SortRank(s, j) = r]]

\* positions k of the preference list whose move is legal from (x, y)
LegalPositions(x, y, prefs) ==
    {k \in 1 .. 8 : is_valid_move(x + moves_x[prefs[k] + 1],
                                  y + moves_y[prefs[k] + 1])}

\* the list `moves` built by the loop over move_preferences; rf[k] is the
\* random_factor drawn for the candidate at position k
CandidateMoves(x, y, prefs, v, rf) ==
    LET legal == LegalPositions(x, y, prefs)
        Keep(k) == k \in legal
        Entry(k) ==
            LET next_x == x + moves_x[prefs[k] + 1]
                next_y == y + moves_y[prefs[k] + 1]
                degree == _count_valid_moves(next_x, next_y)
            IN  [score |-> scoring_func(v, next_x, next_y, degree, rf[k]),
                 x |-> next_x, y |-> next_y]
    IN  CHOOSE m \in {[j \in 1 .. Len(ks) |-> Entry(ks[j])] :
                          ks \in {SelectSeq([k \in 1 .. 8 |-> k], Keep)}} : TRUE

\* moves.sort(...); best_move = moves[0]
BestMove(moves) == SortMoves(moves)[1]

\* <<>> stands for None, otherwise the cell <<next_x, next_y>>
_get_next_move_warnsdorff_generic_detailed(x, y, prefs, v, rf) ==
    CHOOSE r \in {IF moves = <<>> THEN <<>>
                  ELSE <<BestMove(moves).x, BestMove(moves).y>> :
                      moves \in {CandidateMoves(x, y, prefs, v, rf)}} : TRUE

\* ------------------------------------------------------------ fingerprint
\* str(list): "[", the cells, "]"; a cell is written as its index on the board
OpenBr == -1
CloseBr == -2

StrOfList(l) ==
    <<OpenBr>> \o [j \in 1 .. Len(l) |-> l[j][1] * size + l[j][2]] \o <<CloseBr>>

\* polynomial hash of the characters, then cut down to HashMod values
RECURSIVE PolyHash(_, _)
PolyHash(s, h) ==
    IF s = <<>> THEN h
    ELSE PolyHash(Tail(s), (h * 31 + Head(s) + 3) % 1009)

\* a hash under which all strings collide
HashOfStr_Collides(s) == <<0>>

\* Knight.py:349, hash() of the sample string
HashOfStr(s) == IF hash_exact THEN s ELSE <<PolyHash(s, 7) % HashMod>>

\* path[:n] and path[-n:] of Python
SliceFirst(p, n) == SubSeq(p, 1, Min2(n, Len(p)))

SliceLast(p, n) == IF n = 0 THEN p ELSE SubSeq(p, Len(p) - Min2(n, Len(p)) + 1, Len(p))

_get_path_hash(p) ==
    LET sample_size == Min2(MaxSample, Len(p) \div 2)
        path_sample == StrOfList(SliceFirst(p, sample_size))
                       \o StrOfList(SliceLast(p, sample_size))
    IN  HashOfStr(path_sample)

\* ------------------------------------------------------------------ Init
\* rotation of the identity by 3 k places
PrefOrder(k) == [i \in 1 .. 8 |-> (i - 1 + 3 * k) % 8]

PrefOrders == {PrefOrder(k) : k \in 0 .. NumPrefs - 1}

Init ==
    /\ size \in BoardSizes
    /\ attempts \in (IF size > 5 THEN {0} ELSE 0 .. MaxAttempts)
    /\ start \in InputStarts(size, attempts)
    /\ hash_exact \in (IF attempts > 0 THEN BOOLEAN ELSE {FALSE})
    /\ pc = "main"
    /\ board = EmptyBoard(size)
    /\ path = <<>>
    /\ variation_stats = <<>>
    /\ debug_log = <<>>
    /\ max_attempts = 0
    /\ attempt = 0
    /\ variation = 0
    /\ move_preferences = NoPrefs
    /\ attempted_paths = {}
    /\ attempt_success = FALSE
    /\ stack = <<>>
    /\ success = FALSE

\* --------------------------------------------------------------- driver
\* the validation that looks at the row only
StartInBounds_RowOnly == 0 <= start[1] /\ start[1] < size

\* Knight.py:689, 0 <= start_x < size and 0 <= start_y < size
StartInBounds ==
    0 <= start[1] /\ start[1] < size /\ 0 <= start[2] /\ start[2] < size

\* Knight.py:689-692, sys.exit(1) on a start outside the board
MainInvalidStart ==
    /\ pc = "main"
    /\ ~ StartInBounds
    /\ pc' = "exit"
    /\ UNCHANGED <<size, start, attempts, hash_exact, board, path,
                   variation_stats, debug_log, max_attempts, attempt,
                   variation, move_preferences, attempted_paths,
                   attempt_success, stack, success>>

\* Knight.py:695 with the entry of the orchestrator, Knight.py:201-206
MainCallOrchestrator ==
    /\ pc = "main"
    /\ StartInBounds
    /\ max_attempts' = attempts
    /\ variation_stats' = <<>>
    /\ debug_log' = <<>>
    /\ attempted_paths' = {}
    /\ attempt' = 0
    /\ pc' = "attempt_loop"
    /\ UNCHANGED <<size, start, attempts, hash_exact, board, path, variation,
                   move_preferences, attempt_success, stack, success>>

\* ---------------------------------------------------------- orchestrator
\* the loop over the attempts ending one attempt early
HasNextAttempt_OneShort == attempt < max_attempts - 1

\* Knight.py:208, range(max_attempts) still has a value for the loop variable
HasNextAttempt == attempt < max_attempts

\* an attempt that starts on the board and path the previous one left
AttemptBegin_NoReset ==
    /\ pc = "attempt_loop"
    /\ HasNextAttempt
    /\ variation' = attempt % 3
    /\ move_preferences' \in PrefOrders
    /\ debug_log' = Append(debug_log, [msg |-> "attempt", attempt |-> attempt + 1])
    /\ pc' = "ws_call"
    /\ UNCHANGED <<size, start, attempts, hash_exact, board, path,
                   variation_stats, max_attempts, attempt, attempted_paths,
                   attempt_success, stack, success>>

\* Knight.py:208-239, up to the call of the single-attempt solver
AttemptBegin ==
    /\ pc = "attempt_loop"
    /\ HasNextAttempt
    /\ variation' = attempt % 3
    /\ board' = EmptyBoard(size)
    /\ path' = <<>>
    /\ move_preferences' \in PrefOrders
    /\ debug_log' = Append(debug_log, [msg |-> "attempt", attempt |-> attempt + 1])
    /\ pc' = "ws_call"
    /\ UNCHANGED <<size, start, attempts, hash_exact, variation_stats,
                   max_attempts, attempt, attempted_paths, attempt_success,
                   stack, success>>

\* the start of an attempt that leaves the start cell unnumbered
WarnsdorffStart_StartUnmarked ==
    /\ pc = "ws_call"
    /\ path' = <<start>>
    /\ pc' = "ws_loop"
    /\ UNCHANGED <<size, start, attempts, hash_exact, board, variation_stats,
                   debug_log, max_attempts, attempt, variation,
                   move_preferences, attempted_paths, attempt_success, stack,
                   success>>

\* Knight.py:293-307
WarnsdorffStart ==
    /\ pc = "ws_call"
    /\ board' = [board EXCEPT ![start] = 0]
    /\ path' = <<start>>
    /\ pc' = "ws_loop"
    /\ UNCHANGED <<size, start, attempts, hash_exact, variation_stats,
                   debug_log, max_attempts, attempt, variation,
                   move_preferences, attempted_paths, attempt_success, stack,
                   success>>

\* the loop over the moves ending one move early
MovesLeft_OneShort == Len(path) < size * size - 1

\* Knight.py:309, range(1, size * size) still has a value for move_count,
\* which is len(path)
MovesLeft == Len(path) < size * size

\* Knight.py:309-336, one iteration of the loop; move_count = len(path)
WarnsdorffStep ==
    /\ pc = "ws_loop"
    /\ MovesLeft
    /\ LET curr == path[Len(path)]
           move_count == Len(path)
       IN  \E rf \in [LegalPositions(curr[1], curr[2], move_preferences) -> Ties] :
             LET next_move == _get_next_move_warnsdorff_generic_detailed(
                                  curr[1], curr[2], move_preferences, variation, rf)
             IN  IF next_move = <<>>
                 THEN /\ attempt_success' = FALSE
                      /\ pc' = "ws_ret"
                      /\ UNCHANGED <<board, path>>
                 ELSE /\ board' = Place(board, next_move, move_count)
                      /\ path' = Append(path, next_move)
                      /\ UNCHANGED <<pc, attempt_success>>
    /\ UNCHANGED <<size, start, attempts, hash_exact, variation_stats,
                   debug_log, max_attempts, attempt, variation,
                   move_preferences, attempted_paths, stack, success>>

\* Knight.py:337-341, the loop is over
WarnsdorffComplete ==
    /\ pc = "ws_loop"
    /\ ~ MovesLeft
    /\ attempt_success' = TRUE
    /\ pc' = "ws_ret"
    /\ UNCHANGED <<size, start, attempts, hash_exact, board, path,
                   variation_stats, debug_log, max_attempts, attempt,
                   variation, move_preferences, attempted_paths, stack,
                   success>>

\* a record that counts the moves made instead of the cells of the path
variation_info_MovesCounted ==
    [attempt |-> attempt + 1,
     variation_type |-> variation,
     random_seed |-> attempt + size * SeedFactor,
     move_preferences |-> move_preferences,
     start_position |-> start,
     successful |-> attempt_success,
     path_length |-> Len(path) - 1]

\* Knight.py:221-227, 242-243, the record of the attempt that has ended
variation_info ==
    [attempt |-> attempt + 1,
     variation_type |-> variation,
     random_seed |-> attempt + size * SeedFactor,
     move_preferences |-> move_preferences,
     start_position |-> start,
     successful |-> attempt_success,
     path_length |-> Len(path)]

\* a new tour that is recorded without ending the run
AttemptNovel_NoReturn ==
    /\ pc = "ws_ret"
    /\ attempt_success
    /\ _get_path_hash(path) \notin attempted_paths
    /\ variation_stats' = Append(variation_stats, variation_info)
    /\ debug_log' = Append(debug_log, [msg |-> "success", attempt |-> attempt + 1])
    /\ attempted_paths' = attempted_paths \cup {_get_path_hash(path)}
    /\ attempt' = attempt + 1
    /\ pc' = "attempt_loop"
    /\ UNCHANGED <<size, start, attempts, hash_exact, board, path,
                   max_attempts, variation, move_preferences, attempt_success,
                   stack, success>>

\* Knight.py:242-257, a tour whose fingerprint is new ends the run
AttemptNovel ==
    /\ pc = "ws_ret"
    /\ attempt_success
    /\ _get_path_hash(path) \notin attempted_paths
    /\ variation_stats' = Append(variation_stats, variation_info)
    /\ debug_log' = Append(debug_log, [msg |-> "success", attempt |-> attempt + 1])
    /\ success' = TRUE
    /\ pc' = "orch_ret"
    /\ UNCHANGED <<size, start, attempts, hash_exact, board, path,
                   max_attempts, attempt, variation, move_preferences,
                   attempted_paths, attempt_success, stack>>

\* a duplicate that is retried without using up the budget
AttemptDuplicate_FreeRetry ==
    /\ pc = "ws_ret"
    /\ attempt_success
    /\ _get_path_hash(path) \in attempted_paths
    /\ variation_stats' = Append(variation_stats, variation_info)
    /\ debug_log' = Append(debug_log, [msg |-> "duplicate", attempt |-> attempt + 1])
    /\ attempted_paths' = attempted_paths \cup {_get_path_hash(path)}
    /\ pc' = "attempt_loop"
    /\ UNCHANGED <<size, start, attempts, hash_exact, board, path,
                   max_attempts, attempt, variation, move_preferences,
                   attempt_success, stack, success>>

\* Knight.py:242-249, 258-261, 267-269 and the next value of the loop variable
AttemptDuplicate ==
    /\ pc = "ws_ret"
    /\ attempt_success
    /\ _get_path_hash(path) \in attempted_paths
    /\ variation_stats' = Append(variation_stats, variation_info)
    /\ debug_log' = Append(debug_log, [msg |-> "duplicate", attempt |-> attempt + 1])
    /\ attempted_paths' = IF Len(path) > 0
                          THEN attempted_paths \cup {_get_path_hash(path)}
                          ELSE attempted_paths
    /\ attempt' = attempt + 1
    /\ pc' = "attempt_loop"
    /\ UNCHANGED <<size, start, attempts, hash_exact, board, path,
                   max_attempts, variation, move_preferences, attempt_success,
                   stack, success>>

\* a failed attempt that leaves no record
AttemptFailed_NoRecord ==
    /\ pc = "ws_ret"
    /\ ~ attempt_success
    /\ debug_log' = Append(debug_log, [msg |-> "fail", attempt |-> attempt + 1])
    /\ attempted_paths' = IF Len(path) > 0
                          THEN attempted_paths \cup {_get_path_hash(path)}
                          ELSE attempted_paths
    /\ attempt' = attempt + 1
    /\ pc' = "attempt_loop"
    /\ UNCHANGED <<size, start, attempts, hash_exact, board, path,
                   variation_stats, max_attempts, variation, move_preferences,
                   attempt_success, stack, success>>

\* Knight.py:242-247, 262-269 and the next value of the loop variable
AttemptFailed ==
    /\ pc = "ws_ret"
    /\ ~ attempt_success
    /\ variation_stats' = Append(variation_stats, variation_info)
    /\ debug_log' = Append(debug_log, [msg |-> "fail", attempt |-> attempt + 1])
    /\ attempted_paths' = IF Len(path) > 0
                          THEN attempted_paths \cup {_get_path_hash(path)}
                          ELSE attempted_paths
    /\ attempt' = attempt + 1
    /\ pc' = "attempt_loop"
    /\ UNCHANGED <<size, start, attempts, hash_exact, board, path,
                   max_attempts, variation, move_preferences, attempt_success,
                   stack, success>>

\* Knight.py:271-277, the budget is used up
OrchestratorExhausted ==
    /\ pc = "attempt_loop"
    /\ ~ HasNextAttempt
    /\ debug_log' = Append(debug_log, [msg |-> "all_fail", attempt |-> max_attempts])
    /\ success' = FALSE
    /\ pc' = "orch_ret"
    /\ UNCHANGED <<size, start, attempts, hash_exact, board, path,
                   variation_stats, max_attempts, attempt, variation,
                   move_preferences, attempted_paths, attempt_success, stack>>

\* the fallback run on the instance the orchestrator has used
MainAfterOrchestrator_SameInstance ==
    /\ pc = "orch_ret"
    /\ IF success
       THEN /\ pc' = "done"
            /\ UNCHANGED <<attempts, hash_exact, board, path, variation_stats,
                           debug_log, max_attempts, attempt, variation,
                           move_preferences, attempted_paths, attempt_success>>
       ELSE IF size <= BacktrackLimit
       THEN /\ pc' = "bt_call"
            /\ debug_log' = <<>>
            /\ attempts' = 0
            /\ hash_exact' = FALSE
            /\ max_attempts' = 0
            /\ attempt' = 0
            /\ variation' = 0
            /\ move_preferences' = NoPrefs
            /\ attempted_paths' = {}
            /\ attempt_success' = FALSE
            /\ UNCHANGED <<board, path, variation_stats>>
       ELSE /\ pc' = "done"
            /\ UNCHANGED <<attempts, hash_exact, board, path, variation_stats,
                           debug_log, max_attempts, attempt, variation,
                           move_preferences, attempted_paths, attempt_success>>
    /\ UNCHANGED <<size, start, stack, success>>

\* Knight.py:697-710, the orchestrator has returned.  On failure the driver
\* builds a new KnightsTour (Knight.py:17-25) for the backtracking solver; the
\* orchestrator's locals, args.attempts (last read on line 700) and the hash
\* are not read again and take their initial values.
MainAfterOrchestrator ==
    /\ pc = "orch_ret"
    /\ IF success
       THEN /\ pc' = "done"
            /\ UNCHANGED <<attempts, hash_exact, board, path, variation_stats,
                           debug_log, max_attempts, attempt, variation,
                           move_preferences, attempted_paths, attempt_success>>
       ELSE IF size <= BacktrackLimit
       THEN /\ pc' = "bt_call"
            /\ board' = EmptyBoard(size)
            /\ path' = <<>>
            /\ variation_stats' = <<>>
            /\ debug_log' = <<>>
            /\ attempts' = 0
            /\ hash_exact' = FALSE
            /\ max_attempts' = 0
            /\ attempt' = 0
            /\ variation' = 0
            /\ move_preferences' = NoPrefs
            /\ attempted_paths' = {}
            /\ attempt_success' = FALSE
       ELSE /\ pc' = "done"
            /\ UNCHANGED <<attempts, hash_exact, board, path, variation_stats,
                           debug_log, max_attempts, attempt, variation,
                           move_preferences, attempted_paths, attempt_success>>
    /\ UNCHANGED <<size, start, stack, success>>

\* ---------------------------------------------------------- backtracking
\* a frame that forgets its move cursor
Frame_NoCursor(mc, x, y, i) == [move_count |-> mc, x |-> x, y |-> y, i |-> 0]

\* Knight.py:403, 412, 415, a stack entry (move_count, curr_x, curr_y, i)
Frame(mc, x, y, i) == [move_count |-> mc, x |-> x, y |-> y, i |-> i]

\* Knight.py:401-403
SolveStart ==
    /\ pc = "bt_call"
    /\ board' = [board EXCEPT ![start] = 0]
    /\ path' = <<start>>
    /\ stack' = <<Frame(1, start[1], start[2], 0)>>
    /\ pc' = "bt_loop"
    /\ UNCHANGED <<size, start, attempts, hash_exact, variation_stats,
                   debug_log, max_attempts, attempt, variation,
                   move_preferences, attempted_paths, attempt_success, success>>

\* Knight.py:410-420, the inner loop: the first index i >= from (0-based) whose
\* move is legal from (x, y), or 8 when there is none
RECURSIVE FirstValidMove(_, _, _)
FirstValidMove(x, y, from) ==
    IF from >= 8 THEN 8
    ELSE IF is_valid_move(x + moves_x[from + 1], y + moves_y[from + 1]) THEN from
    ELSE FirstValidMove(x, y, from + 1)

\* the success test firing one frame early
TourComplete_OneShort(move_count) == move_count = size * size - 1

\* Knight.py:407, the success test on the top frame
TourComplete(move_count) == move_count = size * size

\* Knight.py:405-408, the top frame holds the last cell of the board
SolveSuccess ==
    /\ pc = "bt_loop"
    /\ stack # <<>>
    /\ TourComplete(stack[Len(stack)].move_count)
    /\ success' = TRUE
    /\ pc' = "bt_ret"
    /\ UNCHANGED <<size, start, attempts, hash_exact, board, path,
                   variation_stats, debug_log, max_attempts, attempt,
                   variation, move_preferences, attempted_paths,
                   attempt_success, stack>>

\* the iteration that pops a frame and leaves its cell placed
SolveStep_NoUnplace ==
    /\ pc = "bt_loop"
    /\ stack # <<>>
    /\ ~ TourComplete(stack[Len(stack)].move_count)
    /\ LET top == stack[Len(stack)]
           i == FirstValidMove(top.x, top.y, top.i)
       IN  IF i < 8
           THEN LET next_x == top.x + moves_x[i + 1]
                    next_y == top.y + moves_y[i + 1]
                IN  /\ board' = Place(board, <<next_x, next_y>>, top.move_count)
                    /\ path' = Append(path, <<next_x, next_y>>)
                    /\ stack' = Append(
                           [stack EXCEPT ![Len(stack)] = Frame(top.move_count, top.x, top.y, i + 1)],
                           Frame(top.move_count + 1, next_x, next_y, 0))
           ELSE /\ stack' = SubSeq(stack, 1, Len(stack) - 1)
                /\ UNCHANGED <<board, path>>
    /\ UNCHANGED <<size, start, attempts, hash_exact, variation_stats,
                   debug_log, max_attempts, attempt, variation,
                   move_preferences, attempted_paths, attempt_success, pc,
                   success>>

\* Knight.py:405-425, one iteration of the outer loop
SolveStep ==
    /\ pc = "bt_loop"
    /\ stack # <<>>
    /\ ~ TourComplete(stack[Len(stack)].move_count)
    /\ LET top == stack[Len(stack)]
           i == FirstValidMove(top.x, top.y, top.i)
       IN  IF i < 8
           THEN LET next_x == top.x + moves_x[i + 1]
                    next_y == top.y + moves_y[i + 1]
                IN  /\ board' = Place(board, <<next_x, next_y>>, top.move_count)
                    /\ path' = Append(path, <<next_x, next_y>>)
                    /\ stack' = Append(
                           [stack EXCEPT ![Len(stack)] = Frame(top.move_count, top.x, top.y, i + 1)],
                           Frame(top.move_count + 1, next_x, next_y, 0))
           ELSE LET popped == SubSeq(stack, 1, Len(stack) - 1)
                IN  /\ stack' = popped
                    /\ IF popped # <<>>
                       THEN /\ path' = SubSeq(path, 1, Len(path) - 1)
                            /\ board' = [board EXCEPT ![path[Len(path)]] = UNVISITED]
                       ELSE UNCHANGED <<board, path>>
    /\ UNCHANGED <<size, start, attempts, hash_exact, variation_stats,
                   debug_log, max_attempts, attempt, variation,
                   move_preferences, attempted_paths, attempt_success, pc,
                   success>>

\* the failure return without the reset of board and path
SolveFail_NoReset ==
    /\ pc = "bt_loop"
    /\ stack = <<>>
    /\ success' = FALSE
    /\ pc' = "bt_ret"
    /\ UNCHANGED <<size, start, attempts, hash_exact, board, path,
                   variation_stats, debug_log, max_attempts, attempt,
                   variation, move_preferences, attempted_paths,
                   attempt_success, stack>>

\* Knight.py:426-428, the stack is empty
SolveFail ==
    /\ pc = "bt_loop"
    /\ stack = <<>>
    /\ board' = EmptyBoard(size)
    /\ path' = <<>>
    /\ success' = FALSE
    /\ pc' = "bt_ret"
    /\ UNCHANGED <<size, start, attempts, hash_exact, variation_stats,
                   debug_log, max_attempts, attempt, variation,
                   move_preferences, attempted_paths, attempt_success, stack>>

\* Knight.py:705-712, the fallback has returned
MainAfterSolve ==
    /\ pc = "bt_ret"
    /\ pc' = "done"
    /\ UNCHANGED <<size, start, attempts, hash_exact, board, path,
                   variation_stats, debug_log, max_attempts, attempt,
                   variation, move_preferences, attempted_paths,
                   attempt_success, stack, success>>

Next ==
    \/ MainInvalidStart
    \/ MainCallOrchestrator
    \/ AttemptBegin
    \/ WarnsdorffStart
    \/ WarnsdorffStep
    \/ WarnsdorffComplete
    \/ AttemptNovel
    \/ AttemptDuplicate
    \/ AttemptFailed
    \/ OrchestratorExhausted
    \/ MainAfterOrchestrator
    \/ SolveStart
    \/ SolveSuccess
    \/ SolveStep
    \/ SolveFail
    \/ MainAfterSolve

Spec == Init /\ [][Next]_vars

\* the program is sequential: the interpreter always runs the next statement
FairSpec == Spec /\ WF_vars(Next)

\* ================================================================ claims
\* The properties are stated over the variables with their own notions of
\* knight move, legality and degree rather than with the program's operators.

KnightOffset(a, b) ==
    {Abs(a[1] - b[1]), Abs(a[2] - b[2])} = {1, 2}

AllUnvisited == \A c \in Cells(size) : board[c] = -1

\* p is a knight's tour of the n x n board from s and b numbers its cells
IsTourOn(n, s, p, b) ==
    /\ Len(p) = n * n
    /\ \A k \in 1 .. Len(p) : p[k] \in Cells(n)
    /\ \A j, k \in 1 .. Len(p) : j # k => p[j] # p[k]
    /\ p[1] = s
    /\ \A k \in 1 .. Len(p) - 1 : KnightOffset(p[k], p[k + 1])
    /\ \A c \in Cells(n) : \A k \in 0 .. n * n - 1 : (b[c] = k) <=> (p[k + 1] = c)

\* reference enumeration of every knight path from the cell `last` over the
\* cells not in `seen`
RECURSIVE PathCompletes(_, _, _)
PathCompletes(n, seen, last) ==
    \/ Cardinality(seen) = n * n
    \/ \E c \in Cells(n) \ seen :
          KnightOffset(last, c) /\ PathCompletes(n, seen \cup {c}, c)

TourExists(n, s) == PathCompletes(n, {s}, s)

RefMaxSize == 4

\* C1: whenever the orchestrator or solve returns True, path is a knight's
\* tour of the whole board that begins at the start cell (N*N cells in bounds,
\* no repeat, knight offsets between neighbours) and board[x][y] = k exactly
\* when path[k] = (x, y).
C1_SuccessIsTour ==
    (pc \in {"orch_ret", "bt_ret"} /\ success) => IsTourOn(size, start, path, board)

\* a tour found by the heuristic after an attempt that failed
C1_Witness ==
    /\ pc = "orch_ret" /\ success /\ size = 5
    /\ Len(variation_stats) >= 2
    /\ IsTourOn(size, start, path, board)

\* C2: solve on a fresh board returns True exactly when a tour from the start
\* exists (reference enumeration on the boards up to RefMaxSize, hence False
\* for every start of the 3 x 3 and 4 x 4 boards); on the 5 x 5 board from
\* (0,0) it returns True with a 25-cell tour.
C2_SolveExhaustive ==
    /\ (pc = "bt_ret" /\ size <= RefMaxSize) => (success <=> TourExists(size, start))
    /\ (pc = "bt_ret" /\ size \in {3, 4}) => ~ success
    /\ (pc = "bt_ret" /\ size = 5 /\ start = <<0, 0>>) =>
            (success /\ Len(path) = 25 /\ IsTourOn(5, start, path, board))

C2_Witness ==
    pc = "bt_ret" /\ size = 5 /\ start = <<0, 0>> /\ success /\ Len(path) = 25

\* C3: an attempt that completes a tour whose fingerprint is not among the
\* fingerprints seen so far makes the orchestrator return True at once: no
\* further attempt starts and board and path are those of the attempt.
C3_FirstNovelWins ==
    [][(pc = "ws_ret" /\ attempt_success /\ _get_path_hash(path) \notin attempted_paths)
        => (/\ pc' = "orch_ret"
            /\ success'
            /\ board' = board
            /\ path' = path
            /\ attempt' = attempt
            /\ Len(variation_stats') = attempt + 1)]_vars

\* a novel tour returned after an earlier attempt left a fingerprint, with
\* budget to spare
C3_Witness ==
    /\ pc = "orch_ret" /\ success
    /\ attempted_paths # {}
    /\ Len(variation_stats) < max_attempts
    /\ IsTourOn(size, start, path, board)

\* C4: when the orchestrator returns False, every cell of board is -1 and
\* path is empty.
C4_ExhaustionLeavesClean ==
    (pc = "orch_ret" /\ ~ success) => (AllUnvisited /\ path = <<>>)

\* C5: when solve returns False, every cell of board is -1 and path is empty.
C5_SolveFailureLeavesClean ==
    (pc = "bt_ret" /\ ~ success) => (AllUnvisited /\ path = <<>>)

C5_Witness ==
    pc = "bt_ret" /\ ~ success /\ size = 4 /\ AllUnvisited /\ path = <<>>

\* legal moves from cell c on board b, and the Warnsdorff degree of d
LegalFrom(b, c) == {d \in Cells(size) : KnightOffset(c, d) /\ b[d] = -1}

DegreeOn(b, d) == Cardinality(LegalFrom(b, d))

MinDegreeFrom(b, c) ==
    {d \in LegalFrom(b, c) : \A e \in LegalFrom(b, c) : DegreeOn(b, d) <= DegreeOn(b, e)}

CenterDist(d) == Abs(d[1] - size \div 2) + Abs(d[2] - size \div 2)

CornerDist(d) ==
    LET ds == {Abs(d[1] - cx) + Abs(d[2] - cy) : cx \in {0, size - 1}, cy \in {0, size - 1}}
    IN  CHOOSE m \in ds : \A k \in ds : m <= k

\* a step of the attempt that examines the moves of the current cell
SelectsMove == pc = "ws_loop" /\ Len(path) < size * size

Current == path[Len(path)]

Selected == path'[Len(path')]

\* the board and the cell the last placed cell was selected from
BoardBefore == [board EXCEPT ![path[Len(path)]] = -1]

CellBefore == path[Len(path) - 1]

\* C6: under each strategy and every tie-break value the selected cell is a
\* legal move from the current cell (knight offset, in bounds, unvisited) of
\* minimal degree among the legal candidates; the selection is None exactly
\* when the current cell has no legal move.
C6_SelectsMinimalDegree ==
    [][SelectsMove =>
         IF LegalFrom(board, Current) = {}
         THEN pc' = "ws_ret" /\ ~ attempt_success' /\ path' = path
         ELSE /\ pc' = "ws_loop"
              /\ path' = Append(path, Selected)
              /\ Selected \in MinDegreeFrom(board, Current)]_vars

\* a cell was selected under CornerBias among candidates of different degree
C6_Witness ==
    /\ pc = "ws_loop" /\ Len(path) >= 2 /\ variation = 2
    /\ \E d, e \in LegalFrom(BoardBefore, CellBefore) :
           DegreeOn(BoardBefore, d) # DegreeOn(BoardBefore, e)
    /\ Current \in MinDegreeFrom(BoardBefore, CellBefore)

\* C7: under CornerBias (variation 2) the selected move has the smallest
\* distance to the nearest corner among the legal candidates of minimal degree.
C7_CornerBiasNearest ==
    [][(SelectsMove /\ variation = 2 /\ LegalFrom(board, Current) # {}) =>
         \A d \in MinDegreeFrom(board, Current) :
             CornerDist(Selected) <= CornerDist(d)]_vars

\* C8: under CenterBias (variation 1) the selected move has the smallest
\* Manhattan distance to the cell (N div 2, N div 2) among the legal
\* candidates of minimal degree.
C8_CenterBiasNearest ==
    [][(SelectsMove /\ variation = 1 /\ LegalFrom(board, Current) # {}) =>
         /\ Selected \in MinDegreeFrom(board, Current)
         /\ \A d \in MinDegreeFrom(board, Current) :
                CenterDist(Selected) <= CenterDist(d)]_vars

\* a cell was selected under CenterBias among candidates of minimal degree
\* at different distances from the centre
C8_Witness ==
    /\ pc = "ws_loop" /\ Len(path) >= 2 /\ variation = 1
    /\ \E d, e \in MinDegreeFrom(BoardBefore, CellBefore) : CenterDist(d) # CenterDist(e)
    /\ \A d \in MinDegreeFrom(BoardBefore, CellBefore) : CenterDist(Current) <= CenterDist(d)

\* attempts started in this run: one "attempt" message each (Knight.py:237)
AttemptsStarted ==
    Cardinality({i \in DOMAIN debug_log : debug_log[i].msg = "attempt"})

\* the outcome message logged for attempt number k (1-based)
OutcomeOf(k) ==
    {debug_log[i].msg : i \in {j \in DOMAIN debug_log :
        debug_log[j].attempt = k /\ debug_log[j].msg \in {"fail", "duplicate", "success"}}}

\* C9: a successful attempt whose fingerprint is already in the seen set does
\* not end the run: the orchestrator goes on to the next attempt index, the
\* duplicate uses one unit of the budget, and the number of attempts started
\* never exceeds max_attempts.
C9_DuplicateContinues ==
    /\ [][(pc = "ws_ret" /\ attempt_success /\ _get_path_hash(path) \in attempted_paths)
           => (/\ pc' = "attempt_loop"
               /\ attempt' = attempt + 1
               /\ success' = success
               /\ Len(variation_stats') = attempt + 1)]_vars
    /\ [](AttemptsStarted <= max_attempts)

\* the attempt after a duplicate is running
C9_Witness ==
    /\ pc = "ws_loop"
    /\ \E i \in DOMAIN debug_log :
          debug_log[i].msg = "duplicate" /\ debug_log[i].attempt = attempt
    /\ AttemptsStarted = attempt + 1
    /\ AttemptsStarted <= max_attempts

\* C10: the orchestrator always terminates; it returns False exactly when
\* max_attempts attempts were run and each hit a dead end or produced a
\* duplicate; with max_attempts = 0 it returns False without any attempt.
C10_TerminatesAndExhausts ==
    /\ (pc = "attempt_loop") ~> (pc = "orch_ret")
    /\ [](pc = "orch_ret" =>
            /\ (~ success) <=>
                   /\ AttemptsStarted = max_attempts
                   /\ Len(variation_stats) = max_attempts
                   /\ \A k \in 1 .. max_attempts :
                         \/ /\ OutcomeOf(k) = {"fail"}
                            /\ ~ variation_stats[k].successful
                            /\ variation_stats[k].path_length < size * size
                         \/ /\ OutcomeOf(k) = {"duplicate"}
                            /\ variation_stats[k].successful
            /\ (max_attempts = 0) => (~ success /\ AttemptsStarted = 0 /\ variation_stats = <<>>))

\* the budget was used up by a dead end and a duplicate
C10_Witness ==
    /\ pc = "orch_ret" /\ ~ success
    /\ max_attempts >= 2
    /\ Len(variation_stats) = max_attempts
    /\ \E k \in 1 .. max_attempts : OutcomeOf(k) = {"duplicate"}
    /\ \E k \in 1 .. max_attempts : OutcomeOf(k) = {"fail"}

\* the positions at which one attempt of the orchestrator is in progress
InAttempt == pc \in {"ws_call", "ws_loop", "ws_ret"}

\* the strategy with tag t accepts the cell sel among the candidates of
\* minimal degree: Random takes any of them, CenterBias one of smallest
\* distance to the centre, CornerBias one of smallest score -(distance to the
\* nearest corner)
StrategyAccepts(t, b, c, sel) ==
    /\ sel \in MinDegreeFrom(b, c)
    /\ t = 1 => \A d \in MinDegreeFrom(b, c) : CenterDist(sel) <= CenterDist(d)
    /\ t = 2 => \A d \in MinDegreeFrom(b, c) : -CornerDist(sel) <= -CornerDist(d)

\* C11: the attempt with 0-based index i selects its moves with strategy
\* i mod 3 (0 Random, 1 CenterBias, 2 CornerBias) and its AttemptRecord has
\* variation_type = i mod 3.
C11_StrategyCycles ==
    /\ [](InAttempt => variation = attempt % 3)
    /\ [](\A k \in DOMAIN variation_stats :
             variation_stats[k].variation_type = (k - 1) % 3)
    /\ [][(SelectsMove /\ LegalFrom(board, Current) # {}) =>
             StrategyAccepts(attempt % 3, board, Current, Selected)]_vars

\* three attempts are on record, one per strategy, and the third one chose
\* between candidates that CenterBias and CornerBias rank differently
C11_Witness ==
    /\ pc = "ws_loop" /\ attempt = 2 /\ Len(path) >= 2
    /\ Len(variation_stats) = 2
    /\ variation_stats[1].variation_type = 0
    /\ variation_stats[2].variation_type = 1
    /\ StrategyAccepts(2, BoardBefore, CellBefore, Current)
    /\ ~ StrategyAccepts(1, BoardBefore, CellBefore, Current)

IsPermutation(p) ==
    /\ DOMAIN p = 1 .. 8
    /\ \A i \in 0 .. 7 : \E k \in 1 .. 8 : p[k] = i

\* C13: when an attempt is handed to the single-attempt solver every cell of
\* board is -1 and path is empty, whatever the previous attempt left, and the
\* preference order of the attempt is a permutation of 0..7 that does not
\* change until the attempt ends.
C13_FreshAttempt ==
    /\ [](pc = "ws_call" => (AllUnvisited /\ path = <<>>))
    /\ [](InAttempt => IsPermutation(move_preferences))
    /\ [][(InAttempt /\ InAttempt') => move_preferences' = move_preferences]_vars

\* an attempt is handed over right after a duplicate left a full tour behind
C13_Witness ==
    /\ pc = "ws_call" /\ attempt >= 1
    /\ variation_stats[attempt].successful
    /\ variation_stats[attempt].path_length = size * size
    /\ AllUnvisited /\ path = <<>>
    /\ IsPermutation(move_preferences)

\* C14: inside one Warnsdorff attempt the path grows by exactly one cell per
\* step and no placed cell is unplaced; the attempt returns False at the first
\* step whose current cell has no legal move, and then the last cell of path
\* has degree 0 and 1 <= len(path) < N*N; it returns True only with N*N cells.
C14_NoBacktracking ==
    /\ [][(pc = "ws_loop" /\ pc' = "ws_loop") =>
             /\ path' = Append(path, Selected)
             /\ \A c \in Cells(size) : board[c] # -1 => board'[c] = board[c]]_vars
    /\ [][(pc = "ws_loop" /\ pc' # "ws_loop") =>
             (pc' = "ws_ret" /\ path' = path /\ board' = board)]_vars
    /\ [][(pc = "ws_loop" /\ Len(path) < size * size /\ LegalFrom(board, Current) = {}) =>
             (pc' = "ws_ret" /\ ~ attempt_success')]_vars
    /\ [][(pc = "ws_loop" /\ pc' = "ws_ret" /\ ~ attempt_success') =>
             LegalFrom(board, Current) = {}]_vars
    /\ []((pc = "ws_ret" /\ ~ attempt_success) =>
             /\ 1 <= Len(path) /\ Len(path) < size * size
             /\ DegreeOn(board, Current) = 0)
    /\ []((pc = "ws_ret" /\ attempt_success) => Len(path) = size * size)

\* an attempt has stopped at a dead end in the middle of the board
C14_Witness ==
    /\ pc = "ws_ret" /\ ~ attempt_success
    /\ size = 5 /\ Len(path) > 10 /\ Len(path) < size * size
    /\ DegreeOn(board, Current) = 0

\* the positions inside one invocation of the orchestrator
InOrchestrator == pc \in {"attempt_loop", "ws_call", "ws_loop", "ws_ret", "orch_ret"}

\* C15: the orchestrator appends exactly one AttemptRecord per attempt run,
\* failed, duplicate or successful: the invocation starts without records, an
\* attempt in progress is the only one without record, on return the number
\* of records equals the number of attempts started, and record k (0-based)
\* has attempt = k + 1.
C15_OneRecordPerAttempt ==
    /\ []((pc = "attempt_loop" /\ attempt = 0) => variation_stats = <<>>)
    /\ []((pc \in {"attempt_loop", "orch_ret"}) => Len(variation_stats) = AttemptsStarted)
    /\ [](InAttempt => Len(variation_stats) = AttemptsStarted - 1)
    /\ [](\A k \in DOMAIN variation_stats : variation_stats[k].attempt = k)
    /\ [][InOrchestrator =>
             \/ variation_stats' = variation_stats
             \/ /\ pc = "ws_ret"
                /\ Len(variation_stats') = Len(variation_stats) + 1
                /\ SubSeq(variation_stats', 1, Len(variation_stats)) = variation_stats
             \/ pc = "orch_ret"]_vars

\* the run has returned with a record for a dead end, one for a duplicate
\* and one for the last attempt
C15_Witness ==
    /\ pc = "orch_ret"
    /\ Len(variation_stats) = 3 /\ AttemptsStarted = 3
    /\ OutcomeOf(1) = {"fail"}
    /\ OutcomeOf(2) = {"duplicate"}
    /\ \A k \in 1 .. 3 : variation_stats[k].attempt = k

\* C16: on the 3x3 board, from every start cell and with every attempt
\* budget, every heuristic attempt ends in a dead end, the orchestrator
\* returns False, the driver falls back to backtracking, and backtracking
\* returns False too: no run ever reports a tour.
C16_NoTourOnThree ==
    /\ [](size = 3 => ~ success)
    /\ []((size = 3 /\ pc = "ws_ret") =>
             /\ ~ attempt_success
             /\ Len(path) < size * size
             /\ LegalFrom(board, Current) = {})
    /\ []((size = 3 /\ pc = "orch_ret") =>
             /\ Len(variation_stats) = max_attempts
             /\ \A k \in 1 .. max_attempts : OutcomeOf(k) = {"fail"})
    /\ [][(size = 3 /\ pc = "orch_ret") => pc' = "bt_call"]_vars
    /\ [][(size = 3 /\ pc = "bt_loop" /\ pc' # "bt_loop") =>
             (pc' = "bt_ret" /\ stack = <<>> /\ ~ success')]_vars
    /\ []((size = 3 /\ pc \in {"bt_ret", "done"}) => (~ success /\ stack = <<>>))

\* the fallback has returned False on the 3x3 board from a corner
C16_Witness ==
    /\ size = 3 /\ start = <<2, 0>>
    /\ pc = "bt_ret" /\ ~ success

\* the start cell lies outside the board
OutOfBounds ==
    \/ start[1] < 0 \/ start[1] >= size
    \/ start[2] < 0 \/ start[2] >= size

\* C17: with a start row or column outside [0, N) the driver exits before
\* the orchestrator or the backtracking solver is entered: the run is only
\* ever at the validation or at the exit, no board cell is written, no path,
\* record or frame exists; and the exit is taken for no other reason.
C17_InvalidStartRejected ==
    /\ [](OutOfBounds =>
             /\ pc \in {"main", "exit"}
             /\ AllUnvisited
             /\ path = <<>> /\ stack = <<>>
             /\ variation_stats = <<>> /\ debug_log = <<>>
             /\ ~ success)
    /\ [][(pc = "main" /\ OutOfBounds) => pc' = "exit"]_vars
    /\ [](pc = "exit" => OutOfBounds)
    /\ [](pc \notin {"main", "exit"} => start \in Cells(size))

\* the driver has exited on a column equal to N, the row being legal
C17_Witness ==
    /\ pc = "exit"
    /\ start[1] \in 0 .. size - 1
    /\ start[2] = size
    /\ AllUnvisited

\* the heuristic run has failed on the 5x5 board and left cells numbered
PartialFailure ==
    /\ pc = "orch_ret" /\ ~ success
    /\ size = 5 /\ Len(path) > 1
    /\ \E c \in Cells(size) : board[c] # -1

\* C18: the driver enters the backtracking solver only from the return of
\* the orchestrator, only when that return is a failure and N <= 30, and
\* always on a new instance: the board entirely unvisited, the path empty, no
\* record kept.  A successful return, or a failure on a board of more than 30
\* cells a side, ends the run without backtracking.
C18_FallbackOnFreshInstance ==
    /\ [][(pc' = "bt_call" /\ pc # "bt_call") =>
             (pc = "orch_ret" /\ ~ success /\ size <= 30)]_vars
    /\ [][(pc' = "bt_loop" /\ pc # "bt_loop") => pc = "bt_call"]_vars
    /\ [](pc = "bt_call" =>
             /\ AllUnvisited
             /\ path = <<>> /\ stack = <<>>
             /\ variation_stats = <<>>)
    /\ [](pc \in {"bt_call", "bt_loop", "bt_ret"} => size <= 30)
    /\ [][(pc = "orch_ret" /\ (success \/ size > 30)) => pc' = "done"]_vars
    /\ [][(pc = "orch_ret" /\ ~ success /\ size <= 30) => pc' = "bt_call"]_vars
    /\ [][PartialFailure =>
             (pc' = "bt_call" /\ path' = <<>> /\ \A c \in Cells(size) : board'[c] = -1)]_vars

\* backtracking is about to start on a new 5x5 instance
C18_Witness ==
    /\ pc = "bt_call"
    /\ size = 5
    /\ AllUnvisited /\ path = <<>>

\* the top frame of the backtracking stack
Top == stack[Len(stack)]

\* the knight moves of the top frame not yet examined, 1-based
Unexamined == (Top.i + 1) .. 8

\* C19: at every iteration of the main loop of solve, len(stack) = len(path)
\* = move_count of the top frame, which stands on the last cell of the path.
\* A frame is popped only after all its 8 moves are examined; when a parent
\* remains, the popped cell leaves the end of the path and is reset to -1,
\* every other cell and the parent frame being as they were.  The search
\* returns True exactly when the stack height equals N*N.
C19_PopUnplaces ==
    /\ []((pc = "bt_loop" /\ stack # <<>>) =>
             /\ Len(stack) = Len(path)
             /\ Top.move_count = Len(stack)
             /\ <<Top.x, Top.y>> = Current)
    /\ [][(pc = "bt_loop" /\ pc' = "bt_loop" /\ Len(stack') < Len(stack)) =>
             /\ stack' = SubSeq(stack, 1, Len(stack) - 1)
             /\ \A j \in Unexamined :
                   <<Top.x + moves_x[j], Top.y + moves_y[j]>> \notin LegalFrom(board, Current)
             /\ stack' # <<>> =>
                   /\ path' = SubSeq(path, 1, Len(path) - 1)
                   /\ board'[Current] = -1
                   /\ \A c \in Cells(size) \ {Current} : board'[c] = board[c]]_vars
    /\ [][(pc = "bt_loop" /\ Len(stack) = size * size) =>
             (pc' = "bt_ret" /\ success')]_vars
    /\ [][(pc = "bt_loop" /\ pc' = "bt_ret" /\ success') =>
             Len(stack) = size * size]_vars

\* a parent frame on the 4x4 board has resumed after a child was popped and
\* the search is ten cells deep
C19_Witness ==
    /\ pc = "bt_loop" /\ size = 4
    /\ Len(stack) >= 10
    /\ Top.i > 0
    /\ \E c \in Cells(size) : board[c] = -1

\* a heuristic attempt or a backtracking search is running, its start placed
Searching ==
    \/ pc \in {"ws_loop", "ws_ret", "bt_loop"}
    \/ (pc = "bt_ret" /\ success)

\* C20: in every state of a running heuristic attempt or backtracking search,
\* with k = len(path): 1 <= k <= N*N, the path cells are pairwise distinct
\* cells of the board, the j-th cell (0-based) holds j, every cell off the
\* path holds -1, and the first cell is the start.
C20_PathBoardAgree ==
    Searching =>
        /\ 1 <= Len(path) /\ Len(path) <= size * size
        /\ \A i, j \in DOMAIN path : i # j => path[i] # path[j]
        /\ \A j \in DOMAIN path : path[j] \in Cells(size) /\ board[path[j]] = j - 1
        /\ \A c \in Cells(size) :
              (\A j \in DOMAIN path : path[j] # c) => board[c] = -1
        /\ path[1] = start

\* a CenterBias attempt on the 5x5 board is seventeen cells into its path
C20_Witness ==
    /\ pc = "ws_loop" /\ size = 5 /\ variation = 1
    /\ Len(path) = 17
    /\ Cardinality({c \in Cells(size) : board[c] # -1}) = 17

\* the cell reached from c by the knight move of index j (1-based)
MoveFrom(c, j) == <<c[1] + moves_x[j], c[2] + moves_y[j]>>

\* the cell d may extend the sequence p of visited cells
Extends(p, d) == d \in Cells(size) /\ \A k \in DOMAIN p : p[k] # d

\* reference recursive depth-first search: the first tour that extends p,
\* trying from the last cell of p the moves of index i, i + 1, .. 8 in that
\* order and recursing on each legal one; <<>> when there is none
RECURSIVE Dfs(_, _)
Dfs(p, i) ==
    IF Len(p) = size * size THEN p
    ELSE IF i > 8 THEN <<>>
    ELSE IF Extends(p, MoveFrom(p[Len(p)], i))
    THEN CHOOSE res \in {IF r # <<>> THEN r ELSE Dfs(p, i + 1) :
                            r \in {Dfs(Append(p, MoveFrom(p[Len(p)], i)), 1)}} : TRUE
    ELSE Dfs(p, i + 1)

\* C21: the iterative solve is the recursive depth-first search over the 8
\* moves in index order.  Every frame below the top has its cursor right
\* after the move that created its child; a push takes the first legal move
\* at or after the cursor of the top frame and starts the child at cursor 0;
\* a pop leaves the parent frame as it was, so it resumes right after that
\* move; and solve returns what the recursive search returns: True exactly
\* when that search finds a tour, with that tour as path.
C21_IterativeIsRecursive ==
    /\ [](pc = "bt_loop" =>
             /\ \A k \in 1 .. Len(stack) - 1 :
                   /\ stack[k].i \in 1 .. 8
                   /\ path[k] = <<stack[k].x, stack[k].y>>
                   /\ path[k + 1] = MoveFrom(path[k], stack[k].i)
             /\ stack # <<>> => (Top.i \in 0 .. 8))
    /\ [][(pc = "bt_loop" /\ Len(stack') > Len(stack)) =>
             LET j == stack'[Len(stack)].i
             IN  /\ Len(stack') = Len(stack) + 1
                 /\ j \in Unexamined
                 /\ \A m \in (Top.i + 1) .. (j - 1) : ~ Extends(path, MoveFrom(Current, m))
                 /\ Extends(path, MoveFrom(Current, j))
                 /\ path' = Append(path, MoveFrom(Current, j))
                 /\ stack'[Len(stack')].i = 0
                 /\ \A k \in 1 .. Len(stack) - 1 : stack'[k] = stack[k]]_vars
    /\ [][(pc = "bt_loop" /\ pc' = "bt_loop" /\ Len(stack') < Len(stack)) =>
             (\A k \in 1 .. Len(stack') : stack'[k] = stack[k])]_vars
    /\ [](pc = "bt_ret" =>
             /\ success <=> (Dfs(<<start>>, 1) # <<>>)
             /\ success => (path = Dfs(<<start>>, 1)))

\* solve has returned the tour of the recursive search on the 5x5 board from
\* a start that needs backtracking over many dead ends
C21_Witness ==
    /\ pc = "bt_ret" /\ success
    /\ size = 5 /\ start = <<3, 1>>
    /\ path = Dfs(<<start>>, 1)

\* some attempt recorded so far has completed a tour
SomeEarlierSuccess == \E k \in DOMAIN variation_stats : variation_stats[k].successful

\* C22: the orchestrator computes and remembers fingerprints only for
\* completed tours: the end of a failed attempt leaves the seen set as it
\* was, a non-empty seen set means that an earlier attempt of the run has
\* succeeded, and an attempt is classified as a duplicate only when an
\* earlier attempt of the run has succeeded.
C22_OnlyToursRemembered ==
    /\ [][(pc = "ws_ret" /\ ~ attempt_success) => attempted_paths' = attempted_paths]_vars
    /\ []((InOrchestrator /\ attempted_paths # {}) => SomeEarlierSuccess)
    /\ [][(pc = "ws_ret" /\ attempt_success /\ pc' = "attempt_loop") => SomeEarlierSuccess]_vars

\* the sampled region of the path p: its first s and its last s cells, with
\* s = min(100, len(p) div 2)
Region(p) ==
    LET s == IF Len(p) \div 2 < 100 THEN Len(p) \div 2 ELSE 100
    IN  <<SubSeq(p, 1, s), SubSeq(p, Len(p) - s + 1, Len(p))>>

\* the paths that differ from p in one position
Variants(p) == {[p EXCEPT ![k] = c] : k \in DOMAIN p, c \in Cells(size)}

\* the orchestrator has just taken the fingerprint of path
Fingerprinted == pc = "attempt_loop" /\ attempt > 0 /\ Len(path) > 0

\* C23: the fingerprint is a function of the sampled region only (the first s
\* and the last s cells, s = min(100, len(path) div 2)): a path with the same
\* sampled region as the fingerprinted path has the same fingerprint, with a
\* collision-free hash a path with another sampled region has another
\* fingerprint, and taking the fingerprint leaves board and path unchanged.
C23_FingerprintOfSample ==
    /\ [](Fingerprinted =>
             \A q \in Variants(path) :
                 Region(q) = Region(path) => _get_path_hash(q) = _get_path_hash(path))
    /\ []((Fingerprinted /\ hash_exact) =>
             \A q \in Variants(path) :
                 Region(q) # Region(path) => _get_path_hash(q) # _get_path_hash(path))
    /\ [][(pc = "ws_ret") => (board' = board /\ path' = path)]_vars

\* the move cursors of the frames, bottom to top
Cursors == [k \in DOMAIN stack |-> stack[k].i]

\* the k-th cursor of the sequence a, a missing frame counting as 9: every
\* move of a frame that is gone has been examined
CursorAt(a, k) == IF k <= Len(a) THEN a[k] ELSE 9

\* a comes before b in the lexicographic order of the padded cursors
LexLess(a, b) ==
    \E k \in 1 .. size * size :
        /\ CursorAt(a, k) < CursorAt(b, k)
        /\ \A m \in 1 .. k - 1 : CursorAt(a, m) = CursorAt(b, m)

\* C24: solve terminates for every board size and in-bounds start of the
\* model: once called it reaches the success return or the empty-stack
\* failure return.  No (frame, move index) pair is examined twice under the
\* same path prefix: the cursor of a frame that stays never decreases, and
\* every iteration moves the cursors strictly forward in lexicographic order.
C24_SolveTerminates ==
    /\ (pc = "bt_call") ~> (pc = "bt_ret")
    /\ [][(pc = "bt_loop" /\ pc' = "bt_loop") =>
             /\ LexLess(Cursors, Cursors')
             /\ \A k \in DOMAIN stack \cap DOMAIN stack' :
                   /\ stack'[k].i >= stack[k].i
                   /\ stack'[k].move_count = stack[k].move_count
                   /\ stack'[k].x = stack[k].x /\ stack'[k].y = stack[k].y]_vars
    /\ [][(pc = "bt_loop" /\ pc' # "bt_loop") =>
             /\ pc' = "bt_ret"
             /\ \/ (success' /\ Len(stack) = size * size)
                \/ (~ success' /\ stack = <<>>)]_vars

\* the search of the 4x4 board has ended at the empty stack after its root
\* frame examined all 8 moves
C24_Witness ==
    /\ pc = "bt_ret" /\ ~ success
    /\ size = 4 /\ start = <<1, 2>>
    /\ stack = <<>> /\ path = <<>>

\* the run uses a collision-free fingerprint on a board of fewer than 200 cells
ExactSmall == hash_exact /\ size * size < 200

\* C25: with a collision-free fingerprint and N*N < 200 no successful attempt
\* is classified as a duplicate: the fingerprint of a completed tour is never
\* in the seen set, which holds at most one fingerprint per failed attempt
\* and nothing else; so the first successful attempt returns True, and every
\* attempt recorded before it has failed.
C25_NoDuplicateWhenExact ==
    /\ [](ExactSmall => \A i \in DOMAIN debug_log : debug_log[i].msg # "duplicate")
    /\ []((ExactSmall /\ pc = "ws_ret" /\ attempt_success) =>
             _get_path_hash(path) \notin attempted_paths)
    /\ [][(ExactSmall /\ pc = "ws_ret" /\ attempt_success) =>
             (pc' = "orch_ret" /\ success' /\ path' = path)]_vars
    /\ []((ExactSmall /\ InOrchestrator) =>
             /\ \A k \in DOMAIN variation_stats :
                   variation_stats[k].successful =>
                       (k = Len(variation_stats) /\ pc = "orch_ret" /\ success)
             /\ Cardinality(attempted_paths)
                   <= Cardinality({k \in DOMAIN variation_stats :
                                      ~ variation_stats[k].successful}))

\* with the collision-free fingerprint, the second attempt has returned a
\* tour on the 5x5 board while the seen set held the fingerprint of the
\* failed first attempt
C25_Witness ==
    /\ hash_exact /\ size = 5
    /\ pc = "orch_ret" /\ success
    /\ Len(variation_stats) = 2
    /\ ~ variation_stats[1].successful /\ variation_stats[2].successful
    /\ Cardinality(attempted_paths) = 1

\* C26: in every AttemptRecord of the orchestrator, successful is True
\* exactly when path_length = N*N, a record with successful = False has
\* 1 <= path_length < N*N, and the record appended at the end of an attempt
\* carries the length of path and the result of that attempt.
C26_RecordMatchesPath ==
    /\ [](\A k \in DOMAIN variation_stats :
             /\ variation_stats[k].successful <=> (variation_stats[k].path_length = size * size)
             /\ ~ variation_stats[k].successful =>
                   /\ 1 <= variation_stats[k].path_length
                   /\ variation_stats[k].path_length < size * size)
    /\ [][(pc = "ws_ret") =>
             /\ Len(variation_stats') = Len(variation_stats) + 1
             /\ variation_stats'[Len(variation_stats')].path_length = Len(path)
             /\ variation_stats'[Len(variation_stats')].successful = attempt_success
             /\ \A k \in DOMAIN variation_stats : variation_stats'[k] = variation_stats[k]]_vars

\* a run on the 5x5 board holds the record of a dead end after at least 15
\* cells and the record of a completed tour
C26_Witness ==
    /\ pc = "orch_ret" /\ size = 5
    /\ \E k \in DOMAIN variation_stats :
          /\ ~ variation_stats[k].successful
          /\ variation_stats[k].path_length \in 15 .. 24
    /\ \E k \in DOMAIN variation_stats :
          /\ variation_stats[k].successful
          /\ variation_stats[k].path_length = 25

====
